---- MODULE Spec2Model ----
(***************************************************************************)
(* CampusPool backend: the rides and ride_requests tables and the HTTP     *)
(* handlers of routes/rides.js and routes/requests.js that write them,     *)
(* and the ride lifecycle after acceptance (start with PIN, reached safely, *)
(* SOS) that the client of App.js calls.                                    *)
(* Line numbers in the comments are those of the handler's file.           *)
(* Every handler is an async function; each `await pool.query(...)` is one *)
(* atomic database statement, and other handlers may run between two       *)
(* statements of the same handler.                                         *)
(***************************************************************************)
EXTENDS Integers, Sequences, FiniteSets, TLC

VARIABLES rides, ride_requests, sos_events, chat_messages, users, clock,
          calls, resp, started,
          client    \* the state of the components of App.js

vars == <<rides, ride_requests, sos_events, chat_messages, users, clock,
          calls, resp, started, client>>

(* ------------------------------ bounds --------------------------------- *)
\* the largest totalSeats a driver posts
MaxSeats == 1
\* the HTTP calls of a run, and how many handlers run at once
MaxCalls == 2
MaxInflight == 2
\* seats of a ride whose cost per rider is read
MaxTotalSeats == 3
\* messages of a chat
MaxMessages == 2

(* ------------------------------ users ---------------------------------- *)
\* the client as it is mounted: AuthProvider (App.js 405-406), AppContent
\* (4126-4127), ChatModal (941); nobody is signed in and the splash is shown
ClientInit ==
    client = [user |-> <<>>, loading |-> TRUE, authMode |-> "login",
              currentPage |-> "dashboard", page |-> "Loading",
              chatEnabled |-> TRUE, messages |-> <<>>]

\* req.user as set by authenticateToken: an id and the role stored at signup.
Users == {"d1", "d2", "r1", "r2"}

role(u) == IF u \in {"d1", "d2"} THEN "driver" ELSE "rider"

\* user.verification_status, as the client reads it from the user's profile:
\* d1 and r1 have had their student ID approved, d2 never uploaded one and
\* the upload of r2 awaits review.
verification_status(u) ==
    CASE u = "d2" -> "unverified"
      [] u = "r2" -> "pending"
      [] OTHER -> "verified"

\* bcrypt.hash(password, 10) and bcrypt.compare(password, hash) (auth.js 49, 101)
hash(password) == <<"$2b$10$", password>>

compare(password, password_hash) == password_hash = hash(password)

\* the row INSERT INTO users stores (auth.js 53-58)
NewUser(email, password, userRole) ==
    [email |-> email, password_hash |-> hash(password), role |-> userRole]

\* the users table when the rides are posted and requested: the four users
Registered ==
    <<NewUser("d1@college.edu", "secret1", role("d1")),
      NewUser("d2@college.edu", "secret2", role("d2")),
      NewUser("r1@college.edu", "secret1", role("r1")),
      NewUser("r2@college.edu", "secret2", role("r2"))>>


(* --------------------------- request inputs ---------------------------- *)
\* totalSeats of the request body; 0 is falsy in `!totalSeats`.
SeatInputs == -1..MaxSeats

\* estimatedCost of the request body.
CostInputs == {-1, 10}

\* status of the request body of PATCH /rides/:id/status.
StatusInputs == {"posted", "in_progress", "completed", "cancelled"}

\* the statuses PATCH /rides/:id/status accepts.
ValidRideStatuses == {"posted", "in_progress", "completed"}

\* ids a client may name in a URL or body: every stored id and an unknown one.
RideIds == 1..(Len(rides) + 1)
RequestIds == 1..(Len(ride_requests) + 1)

\* the column default of rides.status (the INSERT does not set it).
DefaultRideStatus == "posted"

\* the value of a column no statement of the handlers sets.
NULL == <<>>

\* the status POST /requests stores: the request awaits the driver's decision.
Requested == "pending"

\* A handler slot that holds no request.  A running handler holds req.user.id,
\* its parameter (arg, status) and what it has read: of rideReq the ride_id and
\* status, of ride the available_seats.
IdleCall == [op |-> "none", user |-> "none", arg |-> 0, status |-> "none",
             pc |-> "idle", ride_id |-> 0, req_status |-> "none", seats |-> 0]

\* no response sent yet
NoResp == [op |-> "none", code |-> 0]

Slots == 1..MaxInflight

(* ------------------------------ tables --------------------------------- *)
\* SELECT * FROM rides WHERE id = $1
RideExists(id) == id \in 1..Len(rides)

\* SELECT * FROM ride_requests WHERE id = $1
RequestExists(id) == id \in 1..Len(ride_requests)

\* SELECT id FROM ride_requests WHERE ride_id = $1 AND rider_id = $2
Existing(rideId, riderId) ==
    {i \in 1..Len(ride_requests) :
        /\ ride_requests[i].ride_id = rideId
        /\ ride_requests[i].rider_id = riderId}

\* NewRide with the driver's own seat taken off available_seats
NewRide_DriverSeatTaken(u, totalSeats, estimatedCost) ==
    [driver_id |-> u,
     total_seats |-> totalSeats,
     available_seats |-> totalSeats - 1,
     estimated_cost |-> estimatedCost,
     status |-> DefaultRideStatus]

\* the row POST /rides stores (rides.js 115-121)
NewRide(u, totalSeats, estimatedCost) ==
    [driver_id |-> u,
     total_seats |-> totalSeats,
     available_seats |-> totalSeats,
     estimated_cost |-> estimatedCost,
     status |-> DefaultRideStatus]

\* the row POST /requests stores (requests.js 84-90)
NewRequest(rideId, riderId) ==
    [ride_id |-> rideId, rider_id |-> riderId, status |-> Requested, pin |-> NULL,
     ride_started_at |-> NULL, reached_safely_at |-> NULL]

\* The database when the observed calls begin: empty, as startServer leaves it,
\* or holding one ride that driver d1 posted and the requests that riders r1
\* and r2 made for it (the rows POST /rides and POST /requests store).
Init ==
    /\ \/ rides = <<>> /\ ride_requests = <<>>
       \/ \E n \in 1..MaxSeats, k \in 1..2 :
            /\ rides = <<NewRide("d1", n, 10)>>
            /\ ride_requests = SubSeq(<<NewRequest(1, "r1"), NewRequest(1, "r2")>>, 1, k)
    /\ sos_events = <<>>
    /\ chat_messages = <<>>
    /\ users = Registered
    /\ ClientInit
    /\ clock = 0
    /\ calls = [s \in Slots |-> IdleCall]
    /\ resp = NoResp
    /\ started = 0

\* a new request is taken by the first slot in which no handler is running
Free(s) ==
    /\ calls[s].pc = "idle"
    /\ \A t \in Slots : t < s => calls[t].pc # "idle"

\* res.status(code).json(...): the handler returns
Finish(s, c, code) ==
    /\ calls' = [calls EXCEPT ![s] = IdleCall]
    /\ resp' = [op |-> c.op, code |-> code]

\* the handler awaits its next statement
Goto(s, c, pc) ==
    /\ calls' = [calls EXCEPT ![s] = [c EXCEPT !.pc = pc]]
    /\ UNCHANGED resp

NewCall(op, u, arg) ==
    [IdleCall EXCEPT !.op = op, !.user = u, !.arg = arg]

(* --------------------------- POST /rides ------------------------------- *)
\* The handler has a single statement, the INSERT (rides.js 99-144).  sent
\* tells whether source, destination, departureTime and estimatedCost are all
\* in the body (line 107).
InsertRide(u, totalSeats, estimatedCost) ==
    Append(rides, NewRide(u, totalSeats, estimatedCost))

\* CreateRide without the role check of lines 103-105
CreateRide_NoRoleCheck(s, u, sent, totalSeats, estimatedCost) ==
    /\ UNCHANGED <<sos_events, clock, chat_messages, users, client>>
    /\ Free(s)
    /\ started < MaxCalls
    /\ started' = started + 1
    /\ LET c == NewCall("createRide", u, 0) IN
       IF FALSE
       THEN /\ Finish(s, c, 403)
            /\ UNCHANGED <<rides, ride_requests>>
       ELSE IF ~sent \/ totalSeats = 0
       THEN /\ Finish(s, c, 400)
            /\ UNCHANGED <<rides, ride_requests>>
       ELSE IF totalSeats < 1 \/ estimatedCost < 0
       THEN /\ Finish(s, c, 400)
            /\ UNCHANGED <<rides, ride_requests>>
       ELSE /\ rides' = InsertRide(u, totalSeats, estimatedCost)
            /\ Finish(s, c, 201)
            /\ UNCHANGED ride_requests

\* CreateRide without the range check of lines 111-113
CreateRide_NoRangeCheck(s, u, sent, totalSeats, estimatedCost) ==
    /\ UNCHANGED <<sos_events, clock, chat_messages, users, client>>
    /\ Free(s)
    /\ started < MaxCalls
    /\ started' = started + 1
    /\ LET c == NewCall("createRide", u, 0) IN
       IF role(u) # "driver"
       THEN /\ Finish(s, c, 403)
            /\ UNCHANGED <<rides, ride_requests>>
       ELSE IF ~sent \/ totalSeats = 0
       THEN /\ Finish(s, c, 400)
            /\ UNCHANGED <<rides, ride_requests>>
       ELSE IF FALSE
       THEN /\ Finish(s, c, 400)
            /\ UNCHANGED <<rides, ride_requests>>
       ELSE /\ rides' = InsertRide(u, totalSeats, estimatedCost)
            /\ Finish(s, c, 201)
            /\ UNCHANGED ride_requests

CreateRide(s, u, sent, totalSeats, estimatedCost) ==
    /\ UNCHANGED <<sos_events, clock, chat_messages, users, client>>
    /\ Free(s)
    /\ started < MaxCalls
    /\ started' = started + 1
    /\ LET c == NewCall("createRide", u, 0) IN
       IF role(u) # "driver"
       THEN /\ Finish(s, c, 403)
            /\ UNCHANGED <<rides, ride_requests>>
       ELSE IF ~sent \/ totalSeats = 0
       THEN /\ Finish(s, c, 400)
            /\ UNCHANGED <<rides, ride_requests>>
       ELSE IF totalSeats < 1 \/ estimatedCost < 0
       THEN /\ Finish(s, c, 400)
            /\ UNCHANGED <<rides, ride_requests>>
       ELSE /\ rides' = InsertRide(u, totalSeats, estimatedCost)
            /\ Finish(s, c, 201)
            /\ UNCHANGED ride_requests

(* ------------------------- POST /requests ------------------------------ *)
\* CreateRequestStart without the seat check of lines 70-72
CreateRequestStart_NoSeatCheck(s, u, rideId) ==
    /\ UNCHANGED <<sos_events, clock, chat_messages, users, client>>
    /\ Free(s)
    /\ started < MaxCalls
    /\ started' = started + 1
    /\ UNCHANGED <<rides, ride_requests>>
    /\ LET c == NewCall("createRequest", u, rideId) IN
       IF role(u) # "rider" THEN Finish(s, c, 403)
       ELSE IF ~RideExists(rideId) THEN Finish(s, c, 404)
       ELSE Goto(s, c, "cr_existing")

\* role check, rideId check and the SELECT of the ride (lines 54-72)
CreateRequestStart(s, u, rideId) ==
    /\ UNCHANGED <<sos_events, clock, chat_messages, users, client>>
    /\ Free(s)
    /\ started < MaxCalls
    /\ started' = started + 1
    /\ UNCHANGED <<rides, ride_requests>>
    /\ LET c == NewCall("createRequest", u, rideId) IN
       IF role(u) # "rider" THEN Finish(s, c, 403)
       ELSE IF ~RideExists(rideId) THEN Finish(s, c, 404)
       ELSE IF rides[rideId].available_seats <= 0 THEN Finish(s, c, 400)
       ELSE Goto(s, c, "cr_existing")

\* the SELECT of an earlier request of the same rider for the ride (lines 74-82)
CreateRequestExisting(s) ==
    /\ UNCHANGED <<sos_events, clock, chat_messages, users, client>>
    /\ calls[s].pc = "cr_existing"
    /\ UNCHANGED <<rides, ride_requests, started>>
    /\ IF Existing(calls[s].arg, calls[s].user) # {}
       THEN Finish(s, calls[s], 409)
       ELSE Goto(s, calls[s], "cr_insert")

InsertRequest(rideId, riderId) ==
    Append(ride_requests, NewRequest(rideId, riderId))

\* the INSERT (lines 84-103)
CreateRequestInsert(s) ==
    /\ UNCHANGED <<sos_events, clock, chat_messages, users, client>>
    /\ calls[s].pc = "cr_insert"
    /\ ride_requests' = InsertRequest(calls[s].arg, calls[s].user)
    /\ Finish(s, calls[s], 201)
    /\ UNCHANGED <<rides, started>>

(* ---------------- PATCH /requests/:id/accept and /reject --------------- *)
\* the SELECT of the request (accept 115-124, reject 155-164)
DecideStart(s, op, u, id) ==
    /\ UNCHANGED <<sos_events, clock, chat_messages, users, client>>
    /\ Free(s)
    /\ started < MaxCalls
    /\ started' = started + 1
    /\ UNCHANGED <<rides, ride_requests>>
    /\ LET c == NewCall(op, u, id) IN
       IF ~RequestExists(id) THEN Finish(s, c, 404)
       ELSE Goto(s, [c EXCEPT !.ride_id = ride_requests[id].ride_id,
                              !.req_status = ride_requests[id].status], "dc_ride")

\* DecideRide with the caller's role checked in place of the ride's ownership
DecideRide_RoleCheck(s) ==
    /\ UNCHANGED <<sos_events, clock, chat_messages, users, client>>
    /\ calls[s].pc = "dc_ride"
    /\ UNCHANGED <<rides, ride_requests, started>>
    /\ IF role(calls[s].user) # "driver"
       THEN Finish(s, calls[s], 403)
       ELSE Goto(s, [calls[s] EXCEPT !.seats = rides[calls[s].ride_id].available_seats],
                 IF calls[s].op = "accept" THEN "ac_request" ELSE "rj_request")

\* the SELECT of the ride and the ownership check (accept 125-129, reject 165-169)
DecideRide(s) ==
    /\ UNCHANGED <<sos_events, clock, chat_messages, users, client>>
    /\ calls[s].pc = "dc_ride"
    /\ UNCHANGED <<rides, ride_requests, started>>
    /\ IF rides[calls[s].ride_id].driver_id # calls[s].user
       THEN Finish(s, calls[s], 403)
       ELSE Goto(s, [calls[s] EXCEPT !.seats = rides[calls[s].ride_id].available_seats],
                 IF calls[s].op = "accept" THEN "ac_request" ELSE "rj_request")

\* UPDATE ride_requests SET status = $1 WHERE id = $2
SetRequestStatus(id, status) ==
    [ride_requests EXCEPT ![id].status = status]

\* DecreaseSeats without its WHERE clause: every ride loses a seat
DecreaseSeats_NoWhere(rideId) ==
    [r \in DOMAIN rides |-> [rides[r] EXCEPT !.available_seats = @ - 1]]

\* UPDATE rides SET available_seats = available_seats - 1 WHERE id = $1
DecreaseSeats(rideId) ==
    [rides EXCEPT ![rideId].available_seats = @ - 1]

\* accept, first write (lines 131-135)
AcceptUpdateRequest(s) ==
    /\ UNCHANGED <<sos_events, clock, chat_messages, users, client>>
    /\ calls[s].pc = "ac_request"
    /\ ride_requests' = SetRequestStatus(calls[s].arg, "accepted")
    /\ Goto(s, calls[s], "ac_ride")
    /\ UNCHANGED <<rides, started>>

\* accept, second write (lines 137-143)
AcceptUpdateRide(s) ==
    /\ UNCHANGED <<sos_events, clock, chat_messages, users, client>>
    /\ calls[s].pc = "ac_ride"
    /\ rides' = DecreaseSeats(calls[s].ride_id)
    /\ Finish(s, calls[s], 200)
    /\ UNCHANGED <<ride_requests, started>>

\* RejectUpdateRequest that also gives the ride a seat back
RejectUpdateRequest_SeatBack(s) ==
    /\ UNCHANGED <<sos_events, clock, chat_messages, users, client>>
    /\ calls[s].pc = "rj_request"
    /\ ride_requests' = SetRequestStatus(calls[s].arg, "rejected")
    /\ rides' = [rides EXCEPT ![calls[s].ride_id].available_seats = @ + 1]
    /\ Finish(s, calls[s], 200)
    /\ UNCHANGED started

\* reject, the write (lines 171-177)
RejectUpdateRequest(s) ==
    /\ UNCHANGED <<sos_events, clock, chat_messages, users, client>>
    /\ calls[s].pc = "rj_request"
    /\ ride_requests' = SetRequestStatus(calls[s].arg, "rejected")
    /\ Finish(s, calls[s], 200)
    /\ UNCHANGED <<rides, started>>

(* ---------------------- PATCH /rides/:id/status ------------------------ *)
\* the SELECT of the ride and the checks (lines 149-163)
UpdateStatusStart(s, u, id, status) ==
    /\ UNCHANGED <<sos_events, clock, chat_messages, users, client>>
    /\ Free(s)
    /\ started < MaxCalls
    /\ started' = started + 1
    /\ UNCHANGED <<rides, ride_requests>>
    /\ LET c == [NewCall("updateStatus", u, id) EXCEPT !.status = status] IN
       IF ~RideExists(id) THEN Finish(s, c, 404)
       ELSE IF rides[id].driver_id # u THEN Finish(s, c, 403)
       ELSE IF status \notin ValidRideStatuses THEN Finish(s, c, 400)
       ELSE Goto(s, c, "us_update")

\* UPDATE rides SET status = $1 WHERE id = $2
SetRideStatus(id, status) ==
    [rides EXCEPT ![id].status = status]

\* the UPDATE (lines 165-173)
UpdateStatusWrite(s) ==
    /\ UNCHANGED <<sos_events, clock, chat_messages, users, client>>
    /\ calls[s].pc = "us_update"
    /\ rides' = SetRideStatus(calls[s].arg, calls[s].status)
    /\ Finish(s, calls[s], 200)
    /\ UNCHANGED <<ride_requests, started>>

Next ==
    \E s \in Slots :
        \/ \E u \in Users, sent \in BOOLEAN, n \in SeatInputs, k \in CostInputs :
              \* of the bodies with a field missing, the one valid but for that
              /\ ~sent => (n = 1 /\ k = 10)
              /\ CreateRide(s, u, sent, n, k)
        \/ \E u \in Users, r \in RideIds : CreateRequestStart(s, u, r)
        \/ CreateRequestExisting(s)
        \/ CreateRequestInsert(s)
        \/ \E op \in {"accept", "reject"}, u \in Users, q \in RequestIds : DecideStart(s, op, u, q)
        \/ DecideRide(s)
        \/ AcceptUpdateRequest(s)
        \/ AcceptUpdateRide(s)
        \/ RejectUpdateRequest(s)
        \/ \E u \in Users, r \in RideIds, st \in StatusInputs : UpdateStatusStart(s, u, r, st)
        \/ UpdateStatusWrite(s)

Spec == Init /\ [][Next]_vars

(* ------------------ the lifecycle after acceptance ---------------------- *)
\* The endpoints POST /api/ride-requests/:id/start, .../reached-safely and
\* POST /api/sos are called by the client (App.js); their handlers are described
\* by the specification of the lifecycle engine and the SOS subsystem: each is
\* one short transaction that re-validates the actor and the request's status
\* before its write.

\* the PIN the driver types: the client sends it only when it has 4 characters
PinInputs == {<<0, 0, 0, 0>>, <<4, 8, 2, 1>>}

\* "now", read when a row is stamped; no two stamps are equal
Now == clock + 1

\* the driver of the ride a request is for
DriverOf(id) == rides[ride_requests[id].ride_id].driver_id

\* ConflictError or ValidationError
InvalidState == {400, 409}

\* AuthorizationError or ValidationError
PinMismatch == {400, 403}

\* StartRide without the comparison of the PIN
StartRide_NoPinCheck(s, u, id, pin) ==
    /\ Free(s)
    /\ started < MaxCalls
    /\ started' = started + 1
    /\ UNCHANGED <<rides, sos_events, chat_messages, users, client>>
    /\ LET c == NewCall("startRide", u, id) IN
       IF ~RequestExists(id)
       THEN Finish(s, c, 404) /\ UNCHANGED <<ride_requests, clock>>
       ELSE IF DriverOf(id) # u
       THEN Finish(s, c, 403) /\ UNCHANGED <<ride_requests, clock>>
       ELSE IF ride_requests[id].status # "accepted"
       THEN /\ \E code \in InvalidState : Finish(s, c, code)
            /\ UNCHANGED <<ride_requests, clock>>
       ELSE /\ ride_requests' = [ride_requests EXCEPT ![id].status = "ongoing",
                                                      ![id].ride_started_at = <<Now>>]
            /\ clock' = Now
            /\ Finish(s, c, 200)

\* startRide(requestId, driverId, pin)
StartRide(s, u, id, pin) ==
    /\ Free(s)
    /\ started < MaxCalls
    /\ started' = started + 1
    /\ UNCHANGED <<rides, sos_events, chat_messages, users, client>>
    /\ LET c == NewCall("startRide", u, id) IN
       IF ~RequestExists(id)
       THEN Finish(s, c, 404) /\ UNCHANGED <<ride_requests, clock>>
       ELSE IF DriverOf(id) # u
       THEN Finish(s, c, 403) /\ UNCHANGED <<ride_requests, clock>>
       ELSE IF ride_requests[id].status # "accepted"
       THEN /\ \E code \in InvalidState : Finish(s, c, code)
            /\ UNCHANGED <<ride_requests, clock>>
       ELSE IF pin # ride_requests[id].pin
       THEN /\ \E code \in PinMismatch : Finish(s, c, code)
            /\ UNCHANGED <<ride_requests, clock>>
       ELSE /\ ride_requests' = [ride_requests EXCEPT ![id].status = "ongoing",
                                                      ![id].ride_started_at = <<Now>>]
            /\ clock' = Now
            /\ Finish(s, c, 200)

\* ReachedSafely without the check of the request's status
ReachedSafely_AnyStatus(s, u, id) ==
    /\ Free(s)
    /\ started < MaxCalls
    /\ started' = started + 1
    /\ UNCHANGED <<rides, sos_events, chat_messages, users, client>>
    /\ LET c == NewCall("reachedSafely", u, id) IN
       IF ~RequestExists(id)
       THEN Finish(s, c, 404) /\ UNCHANGED <<ride_requests, clock>>
       ELSE IF ride_requests[id].rider_id # u
       THEN Finish(s, c, 403) /\ UNCHANGED <<ride_requests, clock>>
       ELSE /\ ride_requests' = [ride_requests EXCEPT ![id].status = "completed",
                                                      ![id].reached_safely_at = <<Now>>]
            /\ clock' = Now
            /\ Finish(s, c, 200)

\* reachedSafely(requestId, riderId)
ReachedSafely(s, u, id) ==
    /\ Free(s)
    /\ started < MaxCalls
    /\ started' = started + 1
    /\ UNCHANGED <<rides, sos_events, chat_messages, users, client>>
    /\ LET c == NewCall("reachedSafely", u, id) IN
       IF ~RequestExists(id)
       THEN Finish(s, c, 404) /\ UNCHANGED <<ride_requests, clock>>
       ELSE IF ride_requests[id].rider_id # u
       THEN Finish(s, c, 403) /\ UNCHANGED <<ride_requests, clock>>
       ELSE IF ride_requests[id].status # "ongoing"
       THEN /\ \E code \in InvalidState : Finish(s, c, code)
            /\ UNCHANGED <<ride_requests, clock>>
       ELSE /\ ride_requests' = [ride_requests EXCEPT ![id].status = "completed",
                                                      ![id].reached_safely_at = <<Now>>]
            /\ clock' = Now
            /\ Finish(s, c, 200)

\* the SosEvent triggerSos creates
NewSosEvent(id, u) ==
    [ride_request_id |-> id, triggered_by_user_id |-> u, status |-> "active",
     resolved_at |-> NULL]

\* TriggerSos without the check of the request's status
TriggerSos_AnyStatus(s, u, id) ==
    /\ Free(s)
    /\ started < MaxCalls
    /\ started' = started + 1
    /\ UNCHANGED <<rides, ride_requests, clock, chat_messages, users, client>>
    /\ LET c == NewCall("triggerSos", u, id) IN
       IF ~RequestExists(id)
       THEN Finish(s, c, 404) /\ UNCHANGED sos_events
       ELSE IF u \notin {ride_requests[id].rider_id, DriverOf(id)}
       THEN Finish(s, c, 403) /\ UNCHANGED sos_events
       ELSE /\ sos_events' = Append(sos_events, NewSosEvent(id, u))
            /\ Finish(s, c, 201)

\* triggerSos(requestId, userId, lat?, lng?, message?)
TriggerSos(s, u, id) ==
    /\ Free(s)
    /\ started < MaxCalls
    /\ started' = started + 1
    /\ UNCHANGED <<rides, ride_requests, clock, chat_messages, users, client>>
    /\ LET c == NewCall("triggerSos", u, id) IN
       IF ~RequestExists(id)
       THEN Finish(s, c, 404) /\ UNCHANGED sos_events
       ELSE IF u \notin {ride_requests[id].rider_id, DriverOf(id)}
       THEN Finish(s, c, 403) /\ UNCHANGED sos_events
       ELSE IF ride_requests[id].status # "ongoing"
       THEN /\ \E code \in InvalidState : Finish(s, c, code)
            /\ UNCHANGED sos_events
       ELSE /\ sos_events' = Append(sos_events, NewSosEvent(id, u))
            /\ Finish(s, c, 201)

\* the handlers of the backend together with the lifecycle after acceptance
LifecycleNext ==
    \/ Next
    \/ \E s \in Slots, u \in Users, q \in RequestIds, p \in PinInputs : StartRide(s, u, q, p)
    \/ \E s \in Slots, u \in Users, q \in RequestIds : ReachedSafely(s, u, q)
    \/ \E s \in Slots, u \in Users, q \in RequestIds : TriggerSos(s, u, q)

LifecycleSpec == Init /\ [][LifecycleNext]_vars

(* ======================= properties of the handlers ===================== *)
RideSet == 1..Len(rides)
RequestSet == 1..Len(ride_requests)

\* slot s takes a step of its handler
Steps(s) == calls'[s] # calls[s]

\* slot s sends its response in this step
Returns(s) == calls[s].pc # "idle" /\ calls'[s] = IdleCall

\* the handler in slot s has read its request and that request's ride
HasRead(s) == calls[s].pc \in {"ac_request", "ac_ride", "rj_request"}

NoWrite == rides' = rides /\ ride_requests' = ride_requests

\* C1: every ride has 0 <= available_seats <= total_seats in every reachable state.
C1_SeatsWithinBounds ==
    \A r \in RideSet :
        /\ 0 <= rides[r].available_seats
        /\ rides[r].available_seats <= rides[r].total_seats

\* the requests of ride r that are accepted
AcceptedOf(r) ==
    {q \in RequestSet : ride_requests[q].ride_id = r /\ ride_requests[q].status = "accepted"}

\* C2: accept handlers for distinct requested requests of one ride that all read
\* the ride with a seat free (they run concurrently) do not oversell it: when
\* more requests of the ride are accepted than it has seats, a handler that
\* read its request as requested and the ride with a seat free does not take
\* available_seats below 0.
C2_ConcurrentAcceptsNeverOversell ==
    [][\A s \in Slots :
        (/\ calls[s].op = "accept"
         /\ calls[s].pc = "ac_ride"
         /\ calls[s].req_status = Requested
         /\ calls[s].seats > 0
         /\ Cardinality(AcceptedOf(calls[s].ride_id)) > rides[calls[s].ride_id].total_seats
         /\ Steps(s))
        => rides'[calls[s].ride_id].available_seats >= 0]_vars

\* C3: accept is atomic: a request's status becomes accepted in the same step
\* in which its ride's available_seats decreases by one, and the seat count
\* decreases only in a step in which a request of the ride becomes accepted.
C3_AcceptIsAtomic ==
    [][/\ \A q \in RequestSet :
            (ride_requests[q].status # "accepted" /\ ride_requests'[q].status = "accepted")
            => rides'[ride_requests[q].ride_id].available_seats
                 = rides[ride_requests[q].ride_id].available_seats - 1
       /\ \A r \in RideSet :
            rides'[r].available_seats < rides[r].available_seats
            => \E q \in RequestSet :
                 /\ ride_requests[q].ride_id = r
                 /\ ride_requests[q].status # "accepted"
                 /\ ride_requests'[q].status = "accepted"]_vars

\* C4: for every (ride_id, rider_id) pair at most one request with a
\* non-rejected status exists, in every reachable state.
C4_OneActiveRequestPerPair ==
    \A i, j \in RequestSet :
        (/\ i # j
         /\ ride_requests[i].ride_id = ride_requests[j].ride_id
         /\ ride_requests[i].rider_id = ride_requests[j].rider_id)
        => (ride_requests[i].status = "rejected" \/ ride_requests[j].status = "rejected")

\* the edges of the request state machine
RequestEdges ==
    {<<Requested, "accepted">>, <<Requested, "rejected">>,
     <<"accepted", "ongoing">>, <<"ongoing", "completed">>}

\* C5: every change of a request's status is one of requested->accepted,
\* requested->rejected, accepted->ongoing, ongoing->completed.
C5_OnlyStateMachineEdges ==
    [][\A q \in RequestSet :
        ride_requests'[q].status # ride_requests[q].status
        => <<ride_requests[q].status, ride_requests'[q].status>> \in RequestEdges]_vars

\* C6: an accept or reject handler run by the ride's driver that read its
\* request in a status other than requested writes nothing and returns an error.
C6_DecideOnlyFromRequested ==
    [][\A s \in Slots :
        (/\ HasRead(s)
         /\ calls[s].user = rides[calls[s].ride_id].driver_id
         /\ calls[s].req_status # Requested
         /\ Steps(s))
        => /\ NoWrite
           /\ Returns(s) => resp'.code >= 400]_vars

\* C7: accept, reject and the ride-status update called by a user other than
\* the ride's owning driver return 403 and change no ride and no request.
C7_OnlyOwnerDecides ==
    [][\A s \in Slots :
        /\ (/\ calls[s].op \in {"accept", "reject"}
            /\ calls[s].pc # "idle"
            /\ calls[s].user # rides[calls[s].ride_id].driver_id
            /\ Steps(s))
           => /\ NoWrite
              /\ Returns(s)
              /\ resp' = [op |-> calls[s].op, code |-> 403]
        /\ (/\ calls[s].op = "updateStatus"
            /\ calls[s].pc # "idle"
            /\ calls[s].user # rides[calls[s].arg].driver_id
            /\ Steps(s))
           => /\ NoWrite
              /\ Returns(s)
              /\ resp' = [op |-> "updateStatus", code |-> 403]
        /\ (started' # started /\ calls' = calls /\ resp'.op = "updateStatus")
           => \/ /\ NoWrite
                 /\ calls'[s] = IdleCall
                 /\ resp' = [op |-> "updateStatus", code |-> 403]
              \/ \A u \in Users, r \in RideSet, st \in StatusInputs :
                   u # rides[r].driver_id => ~UpdateStatusStart(s, u, r, st)]_vars

\* C7 witness: a user who does not own the ride was refused the accept of a
\* request that is still requested.
C7_Witness ==
    /\ resp = [op |-> "accept", code |-> 403]
    /\ \E q \in RequestSet : ride_requests[q].status = Requested
    /\ \A r \in RideSet : rides[r].available_seats = rides[r].total_seats

\* C8: an accept handler that read its ride with available_seats = 0, the ride
\* being full and its request requested when it comes to write, writes nothing
\* and returns an error: the request stays requested and the seat count 0.
C8_NoAcceptOnFullRide ==
    [][\A s \in Slots :
        (/\ calls[s].op = "accept"
         /\ calls[s].pc = "ac_request"
         /\ calls[s].seats = 0
         /\ rides[calls[s].ride_id].available_seats = 0
         /\ ride_requests[calls[s].arg].status = Requested
         /\ Steps(s))
        => /\ NoWrite
           /\ Returns(s)
           /\ resp'.code >= 400]_vars

\* C9: the writes of an accept handler: first the status of its request, and of
\* no other, becomes accepted with every ride unchanged; then available_seats
\* of that request's ride, and of no other, decreases by exactly 1 with every
\* request unchanged, and the handler returns 200.  It returns 200 in no other
\* step.
C9_AcceptEffects ==
    [][\A s \in Slots :
        (calls[s].op = "accept" /\ Steps(s))
        => /\ calls[s].pc = "ac_request"
              => /\ \A q \in RequestSet :
                      ride_requests'[q] =
                        IF q = calls[s].arg
                        THEN [ride_requests[q] EXCEPT !.status = "accepted"]
                        ELSE ride_requests[q]
                 /\ Len(ride_requests') = Len(ride_requests)
                 /\ rides' = rides
                 /\ calls'[s].pc = "ac_ride"
           /\ calls[s].pc = "ac_ride"
              => /\ \A r \in RideSet :
                      rides'[r] =
                        IF r = ride_requests[calls[s].arg].ride_id
                        THEN [rides[r] EXCEPT
                                !.available_seats = rides[r].available_seats - 1]
                        ELSE rides[r]
                 /\ Len(rides') = Len(rides)
                 /\ ride_requests' = ride_requests
                 /\ Returns(s)
                 /\ resp' = [op |-> "accept", code |-> 200]
           /\ (Returns(s) /\ resp'.code = 200) => calls[s].pc = "ac_ride"]_vars

\* C9 witness: an accept has returned 200 with two rides and two requests
\* stored; one request is accepted and its ride alone has lost one seat.
C9_Witness ==
    /\ resp = [op |-> "accept", code |-> 200]
    /\ Len(rides) = 2
    /\ Len(ride_requests) = 2
    /\ \E q \in RequestSet :
        /\ ride_requests[q].status = "accepted"
        /\ rides[ride_requests[q].ride_id].available_seats
             = rides[ride_requests[q].ride_id].total_seats - 1
        /\ \A p \in RequestSet \ {q} : ride_requests[p].status = Requested
        /\ \A r \in RideSet \ {ride_requests[q].ride_id} :
             rides[r].available_seats = rides[r].total_seats

\* a PIN of four decimal digits
IsFourDigitPin(p) == Len(p) = 4 /\ \A i \in 1..Len(p) : p[i] \in 0..9

\* C10: every accepted request carries a stored 4-digit PIN; a request that is
\* still requested or was only rejected carries none.
C10_AcceptedHasPin ==
    \A q \in RequestSet :
        /\ ride_requests[q].status = "accepted" => IsFourDigitPin(ride_requests[q].pin)
        /\ ride_requests[q].status = Requested => ride_requests[q].pin = NULL

(* ================= creating rides and ride requests ==================== *)
\* a handler was started in this step and sent the response of operation op
Answered(op) == started' # started /\ calls' = calls /\ resp'.op = op

\* C14: a createRequest for a ride whose available_seats is 0 returns an error
\* (400 'No seats available' for a rider) and stores no request: the handler
\* does not go on to its duplicate check and its INSERT.
C14_NoRequestOnFullRide ==
    [][\A s \in Slots :
        /\ (Answered("createRequest") /\ Free(s))
           => \A u \in Users, r \in RideSet :
                (rides[r].available_seats = 0 /\ CreateRequestStart(s, u, r))
                => /\ NoWrite
                   /\ calls'[s] = IdleCall
                   /\ resp'.code = IF role(u) = "rider" THEN 400 ELSE 403
        /\ (calls[s].pc = "idle" /\ calls'[s].op = "createRequest")
           => /\ NoWrite
              /\ rides[calls'[s].arg].available_seats # 0]_vars

\* C14 witness: every seat of a ride was taken by an accepted request, and a
\* createRequest was then refused with 400, the requests being those stored
\* before.
C14_Witness ==
    /\ resp = [op |-> "createRequest", code |-> 400]
    /\ \A r \in RideSet :
        /\ rides[r].available_seats = 0
        /\ Cardinality(AcceptedOf(r)) = rides[r].total_seats
    /\ Len(rides) = 1
    /\ \A q \in RequestSet : ride_requests[q].status = "accepted"

\* C15: the duplicate check of createRequest answers 409 exactly when a
\* request of the rider for the ride exists whose status is not rejected.
C15_DuplicateIffActiveRequest ==
    [][\A s \in Slots :
        (calls[s].pc = "cr_existing" /\ Steps(s))
        => ((Returns(s) /\ resp'.code = 409)
            <=> \E i \in Existing(calls[s].arg, calls[s].user) :
                  ride_requests[i].status # "rejected")]_vars

\* C16: every ride and every ride request that is stored was created by a user
\* whose verification_status is verified.
C16_OnlyVerifiedUsersCreate ==
    [][/\ Len(rides') > Len(rides)
          => verification_status(rides'[Len(rides')].driver_id) = "verified"
       /\ Len(ride_requests') > Len(ride_requests)
          => verification_status(ride_requests'[Len(ride_requests')].rider_id)
               = "verified"]_vars

\* C17: createRide by a user who is no driver and createRequest by a user who
\* is no rider return 403 and store nothing; a ride is stored only for a
\* driver and a request only for a rider.
C17_RoleDecidesCreation ==
    [][/\ \A s \in Slots :
            /\ (Answered("createRide") /\ Free(s))
               => \/ NoWrite /\ resp' = [op |-> "createRide", code |-> 403]
                  \/ \A u \in Users, sent \in BOOLEAN, n \in SeatInputs, k \in CostInputs :
                       role(u) # "driver" => ~CreateRide(s, u, sent, n, k)
            /\ (Answered("createRequest") /\ Free(s))
               => \/ NoWrite /\ resp' = [op |-> "createRequest", code |-> 403]
                  \/ \A u \in Users, r \in RideIds :
                       role(u) # "rider" => ~CreateRequestStart(s, u, r)
       /\ Len(rides') > Len(rides)
          => role(rides'[Len(rides')].driver_id) = "driver"
       /\ Len(ride_requests') > Len(ride_requests)
          => role(ride_requests'[Len(ride_requests')].rider_id) = "rider"]_vars

\* C17 witness: a createRide was refused with 403 while a ride and a request
\* of a rider for it are stored.
C17_Witness ==
    /\ resp = [op |-> "createRide", code |-> 403]
    /\ Len(rides) = 1
    /\ Len(ride_requests) >= 1

\* C18: a createRide that returns 201 has appended one ride, owned by the
\* caller, with available_seats = total_seats = totalSeats and status posted,
\* and has left every earlier ride and every request as it was.
C18_CreateRideEffects ==
    [][\A s \in Slots :
        (Answered("createRide") /\ resp'.code = 201)
        => /\ Len(rides') = Len(rides) + 1
           /\ \A r \in RideSet : rides'[r] = rides[r]
           /\ ride_requests' = ride_requests
           /\ rides'[Len(rides')].available_seats = rides'[Len(rides')].total_seats
           /\ rides'[Len(rides')].status = "posted"
           /\ \A u \in Users, sent \in BOOLEAN, n \in SeatInputs, k \in CostInputs :
                CreateRide(s, u, sent, n, k)
                => /\ rides'[Len(rides')].driver_id = u
                   /\ rides'[Len(rides')].total_seats = n
                   /\ rides'[Len(rides')].estimated_cost = k]_vars

\* C18 witness: a second ride was posted, by another driver, next to a ride
\* that has a request.
C18_Witness ==
    /\ resp = [op |-> "createRide", code |-> 201]
    /\ Len(rides) = 2
    /\ rides[2].driver_id # rides[1].driver_id
    /\ Len(ride_requests) >= 1

\* C19: a driver's createRide with totalSeats < 1, estimatedCost < 0 or a field
\* missing returns 400 and stores nothing; every stored ride has
\* total_seats >= 1 and estimated_cost >= 0.
C19_CreateRideValidates ==
    [][/\ \A s \in Slots :
            (Answered("createRide") /\ Free(s))
            => \/ NoWrite /\ resp' = [op |-> "createRide", code |-> 400]
               \/ \A u \in Users, sent \in BOOLEAN, n \in SeatInputs, k \in CostInputs :
                    (role(u) = "driver" /\ (~sent \/ n < 1 \/ k < 0))
                    => ~CreateRide(s, u, sent, n, k)
       /\ \A r \in 1..Len(rides') :
            /\ rides'[r].total_seats >= 1
            /\ rides'[r].estimated_cost >= 0]_vars

\* C19 witness: a driver's createRide was refused with 400 and no ride is
\* stored.
C19_Witness ==
    /\ resp = [op |-> "createRide", code |-> 400]
    /\ rides = <<>>

(* =================== the lifecycle after acceptance ==================== *)
\* no table changes in this step
NoChange == NoWrite /\ sos_events' = sos_events /\ clock' = clock

\* all handlers have returned
AllIdle == \A s \in Slots : calls[s].pc = "idle"

RoundTrip == <<"createRide", "createRequest", "accept", "startRide", "reachedSafely">>

\* the calls of the round trip made so far
Made == started - (MaxCalls - Len(RoundTrip))

\* the next call of the round trip is op, and the call before it has returned
Turn(op) == AllIdle /\ Made < Len(RoundTrip) /\ RoundTrip[Made + 1] = op

\* the ride and the request of the round trip: the last ones stored
TripRide == Len(rides)
TripRequest == Len(ride_requests)

\* The database as in Init.  started counts the calls up to MaxCalls: a run of
\* the round trip begins as many calls below MaxCalls as the round trip has.
RoundTripInit ==
    /\ \/ rides = <<>> /\ ride_requests = <<>>
       \/ \E n \in 1..MaxSeats, k \in 1..2 :
            /\ rides = <<NewRide("d1", n, 10)>>
            /\ ride_requests = SubSeq(<<NewRequest(1, "r1"), NewRequest(1, "r2")>>, 1, k)
    /\ sos_events = <<>>
    /\ chat_messages = <<>>
    /\ users = Registered
    /\ ClientInit
    /\ clock = 0
    /\ calls = [s \in Slots |-> IdleCall]
    /\ resp = NoResp
    /\ started = MaxCalls - Len(RoundTrip)

\* The driver types the PIN the rider shows; the rider's page shows the
\* request's PIN when it has one.
RoundTripNext ==
    \E s \in Slots :
        \/ /\ Turn("createRide")
           /\ \E u \in Users, n \in 1..MaxSeats :
                role(u) = "driver" /\ CreateRide(s, u, TRUE, n, 10)
        \/ /\ Turn("createRequest")
           /\ \E u \in Users : role(u) = "rider" /\ CreateRequestStart(s, u, TripRide)
        \/ CreateRequestExisting(s)
        \/ CreateRequestInsert(s)
        \/ /\ Turn("accept")
           /\ DecideStart(s, "accept", DriverOf(TripRequest), TripRequest)
        \/ DecideRide(s)
        \/ AcceptUpdateRequest(s)
        \/ AcceptUpdateRide(s)
        \/ /\ Turn("startRide")
           /\ \E p \in PinInputs :
                /\ IsFourDigitPin(ride_requests[TripRequest].pin)
                     => p = ride_requests[TripRequest].pin
                /\ StartRide(s, DriverOf(TripRequest), TripRequest, p)
        \/ /\ Turn("reachedSafely")
           /\ ReachedSafely(s, ride_requests[TripRequest].rider_id, TripRequest)

RoundTripSpec == RoundTripInit /\ [][RoundTripNext]_vars

\* C13: when the five calls of the round trip have returned, its request is
\* completed and its ride_started_at is earlier than its reached_safely_at.
C13_RoundTripCompletes ==
    (Made = Len(RoundTrip) /\ AllIdle)
    => /\ ride_requests[TripRequest].status = "completed"
       /\ Len(ride_requests[TripRequest].ride_started_at) = 1
       /\ Len(ride_requests[TripRequest].reached_safely_at) = 1
       /\ ride_requests[TripRequest].ride_started_at[1]
            < ride_requests[TripRequest].reached_safely_at[1]

(* ================== ride status, request status, seats ================= *)
\* the edges of the ride state machine
RideEdges == {<<"posted", "in_progress">>, <<"in_progress", "completed">>}

\* C23: every change of a ride's status is posted -> in_progress or
\* in_progress -> completed: a ride becomes completed only from in_progress
\* and a completed ride keeps its status.
C23_RideStatusMovesForward ==
    [][\A r \in RideSet :
        rides'[r].status # rides[r].status
        => <<rides[r].status, rides'[r].status>> \in RideEdges]_vars

\* the statuses of a ride request
RequestStatuses == {"requested", "accepted", "rejected", "ongoing", "completed"}

\* C25: every status stored in a ride request, by its creation or by a later
\* write, is one of requested, accepted, rejected, ongoing, completed, and a
\* request that createRequest stores has status requested.
C25_RequestStatusInDomain ==
    [][\A q \in 1..Len(ride_requests') :
        /\ q > Len(ride_requests) => ride_requests'[q].status = "requested"
        /\ (q > Len(ride_requests) \/ ride_requests'[q].status # ride_requests[q].status)
           => ride_requests'[q].status \in RequestStatuses]_vars

\* some handler of one of the operations ops takes a step
StepOf(ops) ==
    \/ \E s \in Slots : calls[s].op \in ops /\ Steps(s)
    \/ \E s \in Slots : calls[s].pc = "idle" /\ calls'[s].op \in ops
    \/ started' # started /\ calls' = calls /\ resp'.op \in ops

\* C26: available_seats and total_seats of a ride change only in the step in
\* which an accept returns 200; no step of createRequest or of reject changes
\* them.
C26_SeatsChangeOnlyOnAccept ==
    [][/\ \A r \in RideSet :
            (\/ rides'[r].available_seats # rides[r].available_seats
             \/ rides'[r].total_seats # rides[r].total_seats)
            => /\ resp' = [op |-> "accept", code |-> 200]
               /\ \E s \in Slots : calls[s].op = "accept" /\ Returns(s)
       /\ StepOf({"createRequest", "reject"})
          => \A r \in RideSet :
               /\ rides'[r].available_seats = rides[r].available_seats
               /\ rides'[r].total_seats = rides[r].total_seats]_vars

\* C26 witness: an accepted request was rejected with 200 and its ride still
\* has the seat taken that the accept took.
C26_Witness ==
    /\ resp = [op |-> "reject", code |-> 200]
    /\ AllIdle
    /\ Len(rides) = 1
    /\ Len(ride_requests) = 1
    /\ ride_requests[1].status = "rejected"
    /\ rides[1].available_seats = rides[1].total_seats - 1

\* the requests of ride r that hold a seat
SeatHolders(r) ==
    {q \in RequestSet :
        /\ ride_requests[q].ride_id = r
        /\ ride_requests[q].status \in {"accepted", "ongoing", "completed"}}

\* C27: whenever no handler is running, every ride has as many seats taken
\* (total_seats - available_seats) as it has requests that are accepted,
\* ongoing or completed.
C27_SeatsTakenMatchRequests ==
    AllIdle
    => \A r \in RideSet :
         rides[r].total_seats - rides[r].available_seats = Cardinality(SeatHolders(r))

(* ==================== GET /rides and GET /rides/:id ==================== *)
\* estimated_cost values read back, in hundredths
CostsRead == {0, 1000, 2500}

\* Number.prototype.toFixed(2) of num / den, in hundredths: the nearest one
ToFixed2(num, den) == (2 * num + den) \div (2 * den)

\* costPerRider of a row (rides.js 45-47 and 87-89): with a seat left, the cost
\* over the seats taken (over 1 when none is taken) as a string of two
\* decimals; with no seat left, the cost itself as a number
costPerRider(ride) ==
    IF ride.available_seats > 0
    THEN [cents |-> ToFixed2(ride.estimated_cost,
                             IF ride.total_seats - ride.available_seats # 0
                             THEN ride.total_seats - ride.available_seats ELSE 1),
          text |-> TRUE]
    ELSE [cents |-> ride.estimated_cost, text |-> FALSE]

\* the object the two handlers send for a row (rides.js 39-48 and 79-90)
RideView(ride) ==
    [totalSeats |-> ride.total_seats,
     availableSeats |-> ride.available_seats,
     estimatedCost |-> ride.estimated_cost,
     status |-> ride.status,
     costPerRider |-> costPerRider(ride)]

\* SELECT ... WHERE r.status = 'posted' (rides.js 13-21)
RECURSIVE PostedRides(_)
PostedRides(rows) ==
    IF rows = <<>> THEN <<>>
    ELSE (IF Head(rows).status = "posted" THEN <<RideView(Head(rows))>> ELSE <<>>)
         \o PostedRides(Tail(rows))

\* the rides table the reads run on: one ride with some of its seats taken
ReadInit ==
    /\ \E n \in 1..MaxTotalSeats, a \in 0..MaxTotalSeats, c \in CostsRead,
          st \in ValidRideStatuses :
         /\ a <= n
         /\ rides = <<[NewRide("d1", n, c) EXCEPT !.available_seats = a, !.status = st]>>
    /\ ride_requests = <<>>
    /\ sos_events = <<>>
    /\ chat_messages = <<>>
    /\ users = Registered
    /\ ClientInit
    /\ clock = 0
    /\ calls = [s \in Slots |-> IdleCall]
    /\ resp = [op |-> "none", code |-> 0, rides |-> <<>>]
    /\ started = 0

\* GET /rides (rides.js 9-54)
ListRides ==
    /\ resp' = [op |-> "listRides", code |-> 200, rides |-> PostedRides(rides)]
    /\ UNCHANGED <<rides, ride_requests, sos_events, chat_messages, users, client,
                   clock, calls, started>>

\* GET /rides/:id (rides.js 57-96)
GetRide(id) ==
    /\ resp' = IF RideExists(id)
               THEN [op |-> "getRide", code |-> 200, rides |-> <<RideView(rides[id])>>]
               ELSE [op |-> "getRide", code |-> 404, rides |-> <<>>]
    /\ UNCHANGED <<rides, ride_requests, sos_events, chat_messages, users, client,
                   clock, calls, started>>

ReadNext ==
    \/ ListRides
    \/ \E id \in RideIds : GetRide(id)

ReadSpec == ReadInit /\ [][ReadNext]_vars

\* c is num / den to the nearest hundredth
NearestHundredth(c, num, den) ==
    /\ 2 * (c * den - num) <= den
    /\ 2 * (num - c * den) <= den

\* C24: every ride a read returns has cost_per_rider equal (to the hundredth)
\* to estimated_cost / max(total_seats - available_seats, 1), a full ride
\* included.
C24_CostPerRider ==
    \A i \in 1..Len(resp.rides) :
        LET v == resp.rides[i]
            taken == v.totalSeats - v.availableSeats
        IN NearestHundredth(v.costPerRider.cents, v.estimatedCost,
                            IF taken > 1 THEN taken ELSE 1)

(* ================= POST /auth/signup and POST /auth/login =============== *)
EmailInputs == {"", "a.college.edu", "a@gmail.com", "a@college.edu", "b@college.edu"}
PasswordInputs == {"", "12345", "secret1", "secret2"}
NameInputs == {"", "Asha"}
RoleInputs == {"", "admin", "rider", "driver"}
\* the addresses a login is tried with
LoginEmails == {"", "a@college.edu", "b@college.edu"}

\* validators.js, as auth.js 20-32 uses it: an address, an address of the
\* college's domain, a password of at least 6 characters
validateEmail(email) == email \in {"a@gmail.com", "a@college.edu", "b@college.edu"}

validateCollegeEmail(email) == email \in {"a@college.edu", "b@college.edu"}

validatePassword(password) == password \in {"secret1", "secret2"}

\* generateToken(user.id): a token naming the user's row
generateToken(row) == <<"jwt", row>>

\* SELECT ... FROM users WHERE email = $1: the positions of the rows found
UsersWithEmail(email) == {i \in 1..Len(users) : users[i].email = email}

\* result.rows[0] of that SELECT (auth.js 98)
FirstUserWithEmail(email) ==
    CHOOSE i \in UsersWithEmail(email) : \A j \in UsersWithEmail(email) : i <= j

\* a handler of auth.js: its body, the step it awaits and the row it read
AuthIdle == [op |-> "none", pc |-> "idle", email |-> "", password |-> "",
             role |-> "", row |-> 0, password_hash |-> NULL]

AuthCall(op, email, password, userRole) ==
    [AuthIdle EXCEPT !.op = op, !.email = email, !.password = password,
                     !.role = userRole]

\* res.status(code).json({message, token}): the handler returns
AuthFinish(s, op, code, message, token) ==
    /\ calls' = [calls EXCEPT ![s] = AuthIdle]
    /\ resp' = [op |-> op, code |-> code, message |-> message, token |-> token]

\* the users table when the calls begin: empty, or one user registered
AuthInit ==
    /\ rides = <<>>
    /\ ride_requests = <<>>
    /\ sos_events = <<>>
    /\ chat_messages = <<>>
    /\ \/ users = <<>>
       \/ users = <<NewUser("a@college.edu", "secret1", "rider")>>
    /\ ClientInit
    /\ clock = 0
    /\ calls = [s \in Slots |-> AuthIdle]
    /\ resp = [op |-> "none", code |-> 0, message |-> "", token |-> NULL]
    /\ started = 0

\* POST /auth/signup up to the first await (auth.js 13-42)
SignupStart(s, email, password, name, userRole) ==
    /\ UNCHANGED <<rides, ride_requests, sos_events, chat_messages, users,
                   client, clock>>
    /\ Free(s)
    /\ started < MaxCalls
    /\ started' = started + 1
    /\ IF email = "" \/ password = "" \/ name = "" \/ userRole = ""
       THEN AuthFinish(s, "signup", 400, "All fields are required", NULL)
       ELSE IF ~validateEmail(email)
       THEN AuthFinish(s, "signup", 400, "Invalid email format", NULL)
       ELSE IF ~validateCollegeEmail(email)
       THEN AuthFinish(s, "signup", 400, "Only college.edu emails are allowed", NULL)
       ELSE IF ~validatePassword(password)
       THEN AuthFinish(s, "signup", 400, "Password must be at least 6 characters", NULL)
       ELSE IF userRole \notin {"rider", "driver"}
       THEN AuthFinish(s, "signup", 400, "Role must be either rider or driver", NULL)
       ELSE /\ calls' = [calls EXCEPT ![s] =
                           [AuthCall("signup", email, password, userRole)
                              EXCEPT !.pc = "select"]]
            /\ UNCHANGED resp

\* the SELECT returned (auth.js 39-46)
SignupSelect(s) ==
    /\ UNCHANGED <<rides, ride_requests, sos_events, chat_messages, users,
                   client, clock, started>>
    /\ calls[s].op = "signup"
    /\ calls[s].pc = "select"
    /\ IF UsersWithEmail(calls[s].email) # {}
       THEN AuthFinish(s, "signup", 409, "Email already registered", NULL)
       ELSE /\ calls' = [calls EXCEPT ![s].pc = "insert"]
            /\ UNCHANGED resp

\* the password is hashed and the INSERT runs (auth.js 48-73)
SignupInsert(s) ==
    /\ UNCHANGED <<rides, ride_requests, sos_events, chat_messages, client,
                   clock, started>>
    /\ calls[s].op = "signup"
    /\ calls[s].pc = "insert"
    /\ users' = Append(users, NewUser(calls[s].email, calls[s].password, calls[s].role))
    /\ AuthFinish(s, "signup", 201, "User registered successfully",
                  generateToken(Len(users) + 1))

\* POST /auth/login up to the first await (auth.js 83-93)
LoginStart(s, email, password) ==
    /\ UNCHANGED <<rides, ride_requests, sos_events, chat_messages, users,
                   client, clock>>
    /\ Free(s)
    /\ started < MaxCalls
    /\ started' = started + 1
    /\ IF email = "" \/ password = ""
       THEN AuthFinish(s, "login", 400, "Email and password are required", NULL)
       ELSE /\ calls' = [calls EXCEPT ![s] =
                           [AuthCall("login", email, password, "")
                              EXCEPT !.pc = "select"]]
            /\ UNCHANGED resp

\* the SELECT returned, with an answer of its own for an unknown address
LoginSelect_UserNotFound(s) ==
    /\ UNCHANGED <<rides, ride_requests, sos_events, chat_messages, users,
                   client, clock, started>>
    /\ calls[s].op = "login"
    /\ calls[s].pc = "select"
    /\ IF UsersWithEmail(calls[s].email) = {}
       THEN AuthFinish(s, "login", 404, "User not found", NULL)
       ELSE /\ calls' = [calls EXCEPT ![s] =
                           [calls[s] EXCEPT
                              !.pc = "compare",
                              !.row = FirstUserWithEmail(calls[s].email),
                              !.password_hash =
                                  users[FirstUserWithEmail(calls[s].email)].password_hash]]
            /\ UNCHANGED resp

\* the SELECT returned (auth.js 90-101)
LoginSelect(s) ==
    /\ UNCHANGED <<rides, ride_requests, sos_events, chat_messages, users,
                   client, clock, started>>
    /\ calls[s].op = "login"
    /\ calls[s].pc = "select"
    /\ IF UsersWithEmail(calls[s].email) = {}
       THEN AuthFinish(s, "login", 401, "Invalid email or password", NULL)
       ELSE /\ calls' = [calls EXCEPT ![s] =
                           [calls[s] EXCEPT
                              !.pc = "compare",
                              !.row = FirstUserWithEmail(calls[s].email),
                              !.password_hash =
                                  users[FirstUserWithEmail(calls[s].email)].password_hash]]
            /\ UNCHANGED resp

\* bcrypt.compare returned (auth.js 101-119)
LoginCompare(s) ==
    /\ UNCHANGED <<rides, ride_requests, sos_events, chat_messages, users,
                   client, clock, started>>
    /\ calls[s].op = "login"
    /\ calls[s].pc = "compare"
    /\ IF ~compare(calls[s].password, calls[s].password_hash)
       THEN AuthFinish(s, "login", 401, "Invalid email or password", NULL)
       ELSE AuthFinish(s, "login", 200, "Login successful", generateToken(calls[s].row))

AuthNext ==
    \/ \E s \in Slots, email \in EmailInputs, password \in PasswordInputs,
          name \in NameInputs, userRole \in RoleInputs :
         SignupStart(s, email, password, name, userRole)
    \/ \E s \in Slots : SignupSelect(s)
    \/ \E s \in Slots : SignupInsert(s)
    \/ \E s \in Slots, email \in LoginEmails, password \in PasswordInputs :
         LoginStart(s, email, password)
    \/ \E s \in Slots : LoginSelect(s)
    \/ \E s \in Slots : LoginCompare(s)

AuthSpec == AuthInit /\ [][AuthNext]_vars

\* C28: after any interleaving of signups no two users share an email.
C28_EmailsAreUnique ==
    \A i, j \in 1..Len(users) : users[i].email = users[j].email => i = j

\* the answer of a login that is refused
InvalidLogin ==
    [op |-> "login", code |-> 401, message |-> "Invalid email or password",
     token |-> NULL]

\* the password is the one stored for the first user with this address
PasswordMatches(email, password) ==
    /\ UsersWithEmail(email) # {}
    /\ compare(password, users[FirstUserWithEmail(email)].password_hash)

\* C29: a login with an unregistered address and a login with a registered
\* address and a wrong password get the same answer, 401 'Invalid email or
\* password' without a token; a login answers with a token only when the
\* password matches the stored hash.
C29_LoginDoesNotTellRegistered ==
    [][/\ \A s \in Slots :
            (calls[s].op = "login" /\ calls'[s] = AuthIdle)
            => /\ ~PasswordMatches(calls[s].email, calls[s].password)
                  => resp' = InvalidLogin
               /\ resp'.token # NULL
                  => /\ PasswordMatches(calls[s].email, calls[s].password)
                     /\ resp'.token = generateToken(FirstUserWithEmail(calls[s].email))
       /\ (resp' # resp /\ resp'.op = "login" /\ resp'.token # NULL)
          => \E s \in Slots : calls[s].op = "login" /\ calls'[s] = AuthIdle]_vars

\* C29 witness: a login was refused while every address a login is tried with
\* is registered, so the password was wrong; the answer is the one an
\* unregistered address gets.
C29_Witness ==
    /\ resp = InvalidLogin
    /\ \A s \in Slots : calls[s].pc = "idle"
    /\ \A email \in LoginEmails \ {""} : UsersWithEmail(email) # {}

(* ======================= the pages of the client ======================= *)
\* data.user of a session: the role chosen at signup and the admin flag
Sessions ==
    {[role |-> r, is_admin |-> a] : r \in {"rider", "driver"}, a \in BOOLEAN}

\* the values setCurrentPage is called with (App.js 474-491, 2819, 3199), the
\* bare 'live-ride' of line 4166 and one no page sets
CurrentPages ==
    {"dashboard", "admin", "sos", "verifications", "profile", "post-ride",
     "requests", "browse", "my-requests", "live-ride", "live-ride:7", "settings"}

\* currentPage.startsWith('live-ride:')
StartsWithLiveRide(p) == p = "live-ride:7"

\* one switch over every page, whoever is signed in
AppContent_OneSwitch(u, isLoading, mode, current) ==
    IF isLoading THEN "Loading"
    ELSE IF u = <<>>
    THEN (IF mode = "login" THEN "LoginPage" ELSE "SignupPage")
    ELSE CASE current = "verifications" -> "AdminVerificationsPage"
           [] current = "sos" -> "AdminSOSPage"
           [] current = "profile" -> "ProfilePage"
           [] current = "post-ride" -> "PostRidePage"
           [] current = "requests" -> "DriverRequestsPage"
           [] current = "browse" -> "BrowseRidesPage"
           [] current = "my-requests" -> "MyRequestsPage"
           [] current = "live-ride" -> "LiveRideScreen"
           [] OTHER -> IF StartsWithLiveRide(current) THEN "LiveRideScreen"
                       ELSE IF u[1].is_admin THEN "AdminDashboard"
                       ELSE IF u[1].role = "driver" THEN "DriverDashboard"
                       ELSE "RiderDashboard"

\* the component AppContent returns (App.js 4124-4197)
AppContent(u, isLoading, mode, current) ==
    IF isLoading THEN "Loading"
    ELSE IF u = <<>>
    THEN (IF mode = "login" THEN "LoginPage" ELSE "SignupPage")
    ELSE IF u[1].is_admin
    THEN CASE current = "verifications" -> "AdminVerificationsPage"
           [] current = "sos" -> "AdminSOSPage"
           [] current = "profile" -> "ProfilePage"
           [] OTHER -> "AdminDashboard"
    ELSE IF u[1].role = "driver"
    THEN CASE current = "post-ride" -> "PostRidePage"
           [] current = "requests" -> "DriverRequestsPage"
           [] current = "live-ride" -> "LiveRideScreen"
           [] current = "profile" -> "ProfilePage"
           [] OTHER -> IF StartsWithLiveRide(current) THEN "LiveRideScreen"
                       ELSE "DriverDashboard"
    ELSE CASE current = "browse" -> "BrowseRidesPage"
           [] current = "my-requests" -> "MyRequestsPage"
           [] current = "profile" -> "ProfilePage"
           [] OTHER -> IF StartsWithLiveRide(current) THEN "LiveRideScreen"
                       ELSE "RiderDashboard"

\* the client after setters changed its state to c: AppContent renders again
Render(c) ==
    /\ client' = [c EXCEPT !.page = AppContent(c.user, c.loading, c.authMode,
                                                c.currentPage)]
    /\ UNCHANGED <<rides, ride_requests, sos_events, chat_messages, users, clock,
                   calls, resp, started>>

NavInit ==
    /\ rides = <<>>
    /\ ride_requests = <<>>
    /\ sos_events = <<>>
    /\ chat_messages = <<>>
    /\ users = Registered
    /\ clock = 0
    /\ calls = [s \in Slots |-> IdleCall]
    /\ resp = NoResp
    /\ started = 0
    /\ ClientInit

\* AuthProvider's effect ends: /api/auth/me answered for the stored token, or
\* there was no token (App.js 408-420)
LoadSession(u) ==
    /\ client.loading
    /\ Render([client EXCEPT !.loading = FALSE, !.user = u])

\* login or signup succeeded (App.js 422-440)
SignIn(u) ==
    /\ ~client.loading
    /\ client.user = <<>>
    /\ Render([client EXCEPT !.user = <<u>>])

\* logout (App.js 442-445)
Logout ==
    /\ ~client.loading
    /\ client.user # <<>>
    /\ Render([client EXCEPT !.user = <<>>])

\* updateUser and refreshUser: the profile, its role included, was changed
\* (App.js 447-458)
UpdateUser(u) ==
    /\ ~client.loading
    /\ client.user # <<>>
    /\ Render([client EXCEPT !.user = <<u>>])

\* a page or the navigation bar calls setCurrentPage (App.js 510, 546)
SetCurrentPage(p) ==
    /\ ~client.loading
    /\ client.user # <<>>
    /\ Render([client EXCEPT !.currentPage = p])

\* onSwitch of the login and signup pages (App.js 4143-4147)
SetAuthMode(mode) ==
    /\ ~client.loading
    /\ client.user = <<>>
    /\ Render([client EXCEPT !.authMode = mode])

NavNext ==
    \/ \E u \in {<<>>} \cup {<<v>> : v \in Sessions} : LoadSession(u)
    \/ \E u \in Sessions : SignIn(u)
    \/ Logout
    \/ \E u \in Sessions : UpdateUser(u)
    \/ \E p \in CurrentPages : SetCurrentPage(p)
    \/ \E mode \in {"login", "signup"} : SetAuthMode(mode)

NavSpec == NavInit /\ [][NavNext]_vars

AdminPages == {"AdminVerificationsPage", "AdminSOSPage", "ProfilePage", "AdminDashboard"}
DriverPages == {"PostRidePage", "DriverRequestsPage", "LiveRideScreen", "ProfilePage",
                "DriverDashboard"}
RiderPages == {"BrowseRidesPage", "MyRequestsPage", "LiveRideScreen", "ProfilePage",
               "RiderDashboard"}

\* C30: whatever currentPage is, the page shown is one of the signed-in user's
\* role: an admin sees admin pages only, a driver driver pages only, a rider
\* rider pages only, and with nobody signed in the login or the signup page is
\* shown (the splash, while the session is being loaded, is no page).
C30_OnlyPagesOfOwnRole ==
    LET user == client.user
        page == client.page
    IN /\ client.loading => page = "Loading"
       /\ ~client.loading =>
           /\ user = <<>> => page \in {"LoginPage", "SignupPage"}
           /\ user # <<>> =>
               /\ user[1].is_admin => page \in AdminPages
               /\ (~user[1].is_admin /\ user[1].role = "driver") => page \in DriverPages
               /\ (~user[1].is_admin /\ user[1].role # "driver") => page \in RiderPages
               /\ page \in {"AdminSOSPage", "AdminVerificationsPage"} => user[1].is_admin

\* C30 witness: a rider is signed in while currentPage still names the page on
\* which a driver posts a ride; the rider's dashboard is shown.
C30_Witness ==
    /\ ~client.loading
    /\ client.user = <<[role |-> "rider", is_admin |-> FALSE]>>
    /\ client.currentPage = "post-ride"
    /\ client.page = "RiderDashboard"

(* ========================= PUT /api/admin/sos/:id ====================== *)
\* The admin's page sends {action: 'review'} or {action: 'resolve'} for an
\* event (App.js 1559-1574); the two handlers are described in section 4.3.
\* The page offers review for an event it loaded as active and resolve for one
\* it loaded as active or reviewed (App.js 1737-1758); it reloads every 15 s,
\* so either action may arrive whatever the event's status has become.
\* the user with is_admin set
Admins == {"a1"}

SosCallers == {"a1", "d1", "r1"}

SosIds == 1..(Len(sos_events) + 1)

\* a ride under way: the request of r1 for the ride of d1 was accepted and the
\* ride started with its PIN; r1 may already have triggered an SOS
SosInit ==
    /\ rides = <<[NewRide("d1", 1, 10) EXCEPT !.available_seats = 0]>>
    /\ ride_requests = <<[NewRequest(1, "r1") EXCEPT !.status = "ongoing",
                                                     !.pin = <<4, 8, 2, 1>>,
                                                     !.ride_started_at = <<0>>]>>
    /\ \/ sos_events = <<>>
       \/ sos_events = <<NewSosEvent(1, "r1")>>
    /\ chat_messages = <<>>
    /\ users = Registered
    /\ ClientInit
    /\ clock = 0
    /\ calls = [s \in Slots |-> IdleCall]
    /\ resp = NoResp
    /\ started = 0

\* ReviewSos without the check of the event's status
ReviewSos_AnyStatus(s, u, e) ==
    /\ Free(s)
    /\ started < MaxCalls
    /\ started' = started + 1
    /\ UNCHANGED <<rides, ride_requests, clock, chat_messages, users, client>>
    /\ LET c == NewCall("reviewSos", u, e) IN
       IF u \notin Admins
       THEN Finish(s, c, 403) /\ UNCHANGED sos_events
       ELSE IF e \notin 1..Len(sos_events)
       THEN Finish(s, c, 404) /\ UNCHANGED sos_events
       ELSE /\ sos_events' = [sos_events EXCEPT ![e].status = "reviewed"]
            /\ Finish(s, c, 200)

\* reviewSos(sosId, adminId, notes?)
ReviewSos(s, u, e) ==
    /\ Free(s)
    /\ started < MaxCalls
    /\ started' = started + 1
    /\ UNCHANGED <<rides, ride_requests, clock, chat_messages, users, client>>
    /\ LET c == NewCall("reviewSos", u, e) IN
       IF u \notin Admins
       THEN Finish(s, c, 403) /\ UNCHANGED sos_events
       ELSE IF e \notin 1..Len(sos_events)
       THEN Finish(s, c, 404) /\ UNCHANGED sos_events
       ELSE IF sos_events[e].status # "active"
       THEN /\ \E code \in InvalidState : Finish(s, c, code)
            /\ UNCHANGED sos_events
       ELSE /\ sos_events' = [sos_events EXCEPT ![e].status = "reviewed"]
            /\ Finish(s, c, 200)

\* resolveSos(sosId, adminId, notes?)
ResolveSos(s, u, e) ==
    /\ Free(s)
    /\ started < MaxCalls
    /\ started' = started + 1
    /\ UNCHANGED <<rides, ride_requests, chat_messages, users, client>>
    /\ LET c == NewCall("resolveSos", u, e) IN
       IF u \notin Admins
       THEN Finish(s, c, 403) /\ UNCHANGED <<sos_events, clock>>
       ELSE IF e \notin 1..Len(sos_events)
       THEN Finish(s, c, 404) /\ UNCHANGED <<sos_events, clock>>
       ELSE IF sos_events[e].status \notin {"active", "reviewed"}
       THEN /\ \E code \in InvalidState : Finish(s, c, code)
            /\ UNCHANGED <<sos_events, clock>>
       ELSE /\ sos_events' = [sos_events EXCEPT ![e].status = "resolved",
                                                ![e].resolved_at = <<Now>>]
            /\ clock' = Now
            /\ Finish(s, c, 200)

\* a ride under way: SOS events are triggered and the admin reviews and
\* resolves them, until and after the rider reports the safe arrival
SosNext ==
    \/ \E s \in Slots, u \in SosCallers, q \in RequestIds : TriggerSos(s, u, q)
    \/ \E s \in Slots, u \in SosCallers, q \in RequestIds : ReachedSafely(s, u, q)
    \/ \E s \in Slots, u \in SosCallers, e \in SosIds : ReviewSos(s, u, e)
    \/ \E s \in Slots, u \in SosCallers, e \in SosIds : ResolveSos(s, u, e)

SosSpec == SosInit /\ [][SosNext]_vars

SosEdges ==
    {<<"active", "reviewed">>, <<"active", "resolved">>, <<"reviewed", "resolved">>}

\* C21: the status of an SOS event changes only along active -> reviewed ->
\* resolved or active -> resolved: to reviewed by a review that succeeds, to
\* resolved (resolved_at set) by a resolve that succeeds; a review or a resolve
\* succeeds only with such a change, so a review of a resolved event fails and
\* leaves it resolved.
C21_SosStatusMovesForward ==
    [][/\ Len(sos_events') >= Len(sos_events)
       /\ \A e \in 1..Len(sos_events) :
            sos_events'[e] # sos_events[e]
            => /\ <<sos_events[e].status, sos_events'[e].status>> \in SosEdges
               /\ sos_events'[e].status = "reviewed"
                  => /\ resp' = [op |-> "reviewSos", code |-> 200]
                     /\ sos_events'[e].resolved_at = NULL
               /\ sos_events'[e].status = "resolved"
                  => /\ resp' = [op |-> "resolveSos", code |-> 200]
                     /\ sos_events'[e].resolved_at = <<Now>>
       /\ (started' # started /\ resp' = [op |-> "reviewSos", code |-> 200])
          => \E e \in 1..Len(sos_events) :
               sos_events[e].status = "active" /\ sos_events'[e].status = "reviewed"
       /\ (started' # started /\ resp' = [op |-> "resolveSos", code |-> 200])
          => \E e \in 1..Len(sos_events) :
               /\ sos_events[e].status \in {"active", "reviewed"}
               /\ sos_events'[e].status = "resolved"]_vars

\* C21 witness: the only event was resolved straight from active and the
\* review that followed was refused for its status; the event is still
\* resolved.
C21_Witness ==
    /\ resp.op = "reviewSos"
    /\ resp.code \in InvalidState
    /\ Len(sos_events) = 1
    /\ sos_events[1].status = "resolved"
    /\ sos_events[1].resolved_at # NULL

(* ===================== /api/chat/:requestId/messages =================== *)
\* The chat window of a request (ChatModal, App.js 935-1095) polls the
\* messages and posts new ones; the two handlers are described in section 4.4.
\* the request whose chat window is open, and the two who may open it
ChatRequest == 1

ChatUsers == {"d1", "r1"}

\* what is typed into the input, and newMessage.trim()
TextInputs == {"", " ", "hi", " hi "}

Trim(text) == IF text \in {"hi", " hi "} THEN "hi" ELSE ""

\* a refused post
ChatRefused == {400, 403}

\* chat_enabled, as listMessages derives it and postMessage enforces it
ChatEnabledFor(id) == ride_requests[id].status \in {"accepted", "ongoing"}

\* the check of section 3: a match exists
MatchExists(id) == ride_requests[id].status \in {"accepted", "ongoing", "completed"}

\* listMessages(requestId): the answer to GET /api/chat/:requestId/messages
ListMessages(id) ==
    [code |-> 200, messages |-> chat_messages, chat_enabled |-> ChatEnabledFor(id)]

\* the ChatMessage postMessage creates
NewMessage(id, u, text) == [ride_request_id |-> id, sender_id |-> u, message |-> text]

\* PostMessage with the check of section 3 in place of chat_enabled
PostMessage_MatchExists(id, u, text) ==
    IF ~MatchExists(id)
    THEN /\ \E code \in ChatRefused : resp' = [op |-> "postMessage", code |-> code]
         /\ UNCHANGED chat_messages
    ELSE /\ chat_messages' = Append(chat_messages, NewMessage(id, u, text))
         /\ resp' = [op |-> "postMessage", code |-> 201]

\* postMessage(requestId, senderId, text)
PostMessage(id, u, text) ==
    IF ~ChatEnabledFor(id)
    THEN /\ \E code \in ChatRefused : resp' = [op |-> "postMessage", code |-> code]
         /\ UNCHANGED chat_messages
    ELSE /\ chat_messages' = Append(chat_messages, NewMessage(id, u, text))
         /\ resp' = [op |-> "postMessage", code |-> 201]

\* a request of r1 for the ride of d1, waiting, rejected, or accepted with its
\* PIN; the chat window is opened on it
ChatInit ==
    /\ rides = <<NewRide("d1", 1, 10)>>
    /\ \E st \in {Requested, "rejected", "accepted"} :
         ride_requests =
           <<[NewRequest(1, "r1") EXCEPT
                !.status = st,
                !.pin = IF st = "accepted" THEN <<4, 8, 2, 1>> ELSE NULL]>>
    /\ sos_events = <<>>
    /\ chat_messages = <<>>
    /\ users = Registered
    /\ ClientInit
    /\ clock = 0
    /\ calls = [s \in Slots |-> IdleCall]
    /\ resp = NoResp
    /\ started = 0

\* loadMessages (App.js 949-962): at the opening of the window and every 3 s
LoadMessages ==
    /\ LET data == ListMessages(ChatRequest) IN
         /\ resp' = [op |-> "listMessages", code |-> data.code]
         /\ client' = IF data.code = 200
                      THEN [client EXCEPT !.messages = data.messages,
                                          !.chatEnabled = data.chat_enabled]
                      ELSE [client EXCEPT !.chatEnabled = FALSE]
    /\ UNCHANGED <<rides, ride_requests, sos_events, chat_messages, users, clock,
                   calls, started>>

\* handleSend (App.js 979-996): the text is posted and, when the post
\* succeeded, the messages are loaded again
HandleSend(u, text) ==
    /\ Trim(text) # ""
    /\ client.chatEnabled
    /\ Len(chat_messages) < MaxMessages
    /\ PostMessage(ChatRequest, u, Trim(text))
    /\ client' = IF resp'.code = 201
                 THEN [client EXCEPT !.messages = chat_messages',
                                     !.chatEnabled = ChatEnabledFor(ChatRequest)]
                 ELSE client
    /\ UNCHANGED <<rides, ride_requests, sos_events, users, clock, calls, started>>

\* the chat of a request while the request goes its way
ChatNext ==
    \/ LoadMessages
    \/ \E u \in ChatUsers, text \in TextInputs : HandleSend(u, text)
    \/ \E s \in Slots, u \in ChatUsers, p \in PinInputs : StartRide(s, u, ChatRequest, p)
    \/ \E s \in Slots, u \in ChatUsers : ReachedSafely(s, u, ChatRequest)

ChatSpec == ChatInit /\ [][ChatNext]_vars

====
